---- MODULE Spec2Model ----
(***************************************************************************)
(* ModemHandler of CM01-SARA-R (src/src/CM01-SARA-R.cpp): the reader task  *)
(* that frames the modem's byte stream into lines, the classifier that     *)
(* routes each line to the response queue or the async event queue, and    *)
(* the timeout-bounded collectors that pop the response queue.             *)
(*                                                                         *)
(* Time is the millisecond counter millis(), an unsigned wrapping value.    *)
(* Computation takes no time: time passes only while a task is blocked in  *)
(* xQueueReceive on an empty queue or is not running a call at all.        *)
(* One FreeRTOS tick is one millisecond (pdMS_TO_TICKS(ms) = ms).          *)
(***************************************************************************)
EXTENDS Integers, Sequences, FiniteSets, TLC

\* ---------------------------------------------------------------- bounds
\* bytes the modem emits in one behaviour
MaxBytes == 3
\* milliseconds that pass in one behaviour
MaxTicks == 3
\* largest timeoutMs a caller passes
MaxTimeout == 2
\* constructor arguments (capacities of the two queues)
responseQueueSize == 2
asyncQueueSize == 1

\* longest line handed to the end-of-response matcher on its own
MaxLine == 3
\* bytes the client writes to the transport with the transmit operations
MaxTx == 6

\* millis() and startTime are unsigned long and wrap at 2^32; the model
\* keeps the wrap and scales the range of the counter down to this modulus
MillisModulus == 256

CR == "\r"
LF == "\n"
\* the bytes the transport can deliver: the two delimiters, the prompt '>', and
\* two ordinary characters
Byte == {CR, LF, ">", "K", "+"}

\* the calling contexts (tasks that call the public operations)
Callers == {1, 2}
\* what a caller passes
Timeouts == {0, MaxTimeout}
\* the client reads single lines by polling
PollTimeouts == {0}
Commands == {<<"A">>}
\* with two callers at once, each sends a command of its own and the modem
\* answers a command with a line that repeats it
CommandOf(c) == IF c = 1 THEN <<"A">> ELSE <<"B">>
ReplyByte == {"A", "B", CR}
PromptChars == {">"}
\* the lists a caller configures: no async prefix or two of which one starts
\* the other; no end criterion or an exact and a wildcard one
PrefixLists == {<< >>, << <<"+">>, <<"+", "K">> >>}
CriteriaLists == {<< >>, << <<"K">>, <<"+", "*">> >>}
\* what the caller's output list holds when it is passed in: a line of an
\* earlier call
PriorLists == {<< <<"K">> >>}
\* what the String a caller passes to a single-line read holds
Strings == {<<"K">>}
\* the data a caller passes to sendStringData
Payloads == {<<"P">>}
\* the std::vector<String>* a caller passes: null, or a list with contents
NULL == [null |-> TRUE, items |-> << >>]
Vectors == {NULL} \cup {[null |-> FALSE, items |-> l] : l \in PriorLists}

\* the lines and end criteria the matcher is applied to on its own: every
\* line of up to MaxLine characters; no criterion, an exact one, wildcard
\* ones (marker last, marker alone, marker inside), and a list of two
MatcherChars == {">", "K", "+"}
MatcherLines == UNION {[1..n -> MatcherChars] : n \in 1..MaxLine}
MatcherCriteria ==
    {<< >>, << <<"K">> >>, << <<"+", "*">> >>, << <<"*">> >>,
     << <<"K", "*", "+">> >>, << <<"K">>, <<"+", "K", "*">> >>}

VARIABLES
    tasks,                  \* the calling contexts that exist
    started,                \* begin() was called: the reader task runs
    enablePrompt,           \* ModemHandler::enablePrompt
    promptCharacter,        \* ModemHandler::promptCharacter
    asyncResponsePrefixes,  \* ModemHandler::asyncResponsePrefixes
    responseEndCriteria,    \* ModemHandler::responseEndCriteria
    asyncCallback,          \* a callback is registered
    buffer,                 \* ModemHandler::buffer, the accumulator
    responseQueue,          \* FreeRTOS queue of String*
    asyncEventQueue,        \* FreeRTOS queue of String*
    emitted,                \* number of bytes read from the transport
    tx,                     \* bytes the calls in progress wrote to the transport
    now,                    \* millis()
    ticks,                  \* milliseconds passed since Init
    nextId,                 \* identity of the next String allocated
    heap,                   \* identities of the Strings allocated, not deleted
    lastLine,               \* the latest call of processLine and what it did
    ctx,                    \* per caller: the call it is in
    responses,              \* per caller: the std::vector<String> of its call
    out,                    \* per caller: the String argument of its call
    upload                  \* the client's run of registerCaCertificate

vars == <<tasks, started, enablePrompt, promptCharacter, asyncResponsePrefixes,
          responseEndCriteria, asyncCallback, buffer, responseQueue,
          asyncEventQueue, emitted, tx, now, ticks, nextId, heap,
          lastLine, ctx, responses, out, upload>>

config == <<enablePrompt, promptCharacter, asyncResponsePrefixes,
            responseEndCriteria, asyncCallback>>
clock == <<now, ticks>>
queues == <<responseQueue, asyncEventQueue>>
alloc == <<nextId, heap, lastLine>>
caller == <<ctx, responses, out>>

\* ------------------------------------------------- Arduino String methods
\* String::indexOf: zero-based index of the first occurrence, or -1
indexOf(s, ch) ==
    IF \E i \in 1..Len(s) : s[i] = ch
    THEN (CHOOSE i \in 1..Len(s) : s[i] = ch /\ \A j \in 1..(i - 1) : s[j] # ch) - 1
    ELSE -1

\* String::startsWith
startsWith(s, prefix) ==
    /\ Len(prefix) <= Len(s)
    /\ SubSeq(s, 1, Len(prefix)) = prefix

\* String::substring(from, to): the characters at [from, to)
substring(s, from, to) == SubSeq(s, from + 1, to)

\* ----------------------------------------------------------------- time

\* Elapsed in signed arithmetic, without the wrap of the subtraction
Elapsed_Signed(t) == now - t

\* millis() - t in unsigned long arithmetic
Elapsed(t) == (now + MillisModulus - t) % MillisModulus

\* ------------------------------------------------ end-of-response matcher

\* EndOfResponse with the prompt character looked for at the end of the
\* line only
EndOfResponse_PromptAtEnd(line, prompt, chr, criteria) ==
    \/ prompt /\ line # << >> /\ line[Len(line)] = chr
    \/ \E i \in 1..Len(criteria) :
          IF indexOf(criteria[i], "*") # -1
          THEN startsWith(line, substring(criteria[i], 0, indexOf(criteria[i], "*")))
          ELSE line = criteria[i]

\* EndOfResponse with startsWith in the place of equals
EndOfResponse_StartsWith(line, prompt, chr, criteria) ==
    \/ prompt /\ indexOf(line, chr) # -1
    \/ \E i \in 1..Len(criteria) :
          IF indexOf(criteria[i], "*") # -1
          THEN startsWith(line, substring(criteria[i], 0, indexOf(criteria[i], "*")))
          ELSE startsWith(line, criteria[i])


\* EndOfResponse that returns the verdict of the first criterion
EndOfResponse_FirstCriterion(line, prompt, chr, criteria) ==
    \/ prompt /\ indexOf(line, chr) # -1
    \/ /\ criteria # << >>
       /\ IF indexOf(criteria[1], "*") # -1
          THEN startsWith(line, substring(criteria[1], 0, indexOf(criteria[1], "*")))
          ELSE line = criteria[1]

\* ModemHandler::isEndOfResponse as a function of the line, the prompt
\* state and the end criteria
EndOfResponse(line, prompt, chr, criteria) ==
    \/ prompt /\ indexOf(line, chr) # -1
    \/ \E i \in 1..Len(criteria) :
          IF indexOf(criteria[i], "*") # -1
          THEN startsWith(line, substring(criteria[i], 0, indexOf(criteria[i], "*")))
          ELSE line = criteria[i]

isEndOfResponse(line) ==
    EndOfResponse(line, enablePrompt, promptCharacter, responseEndCriteria)

\* ------------------------------------------------------------ classifier
\* MatchesAsyncPrefix with equals in the place of startsWith
MatchesAsyncPrefix_Equals(line, prefixes) ==
    \E i \in 1..Len(prefixes) : line = prefixes[i]

\* the loop of processLine: some configured prefix starts the line
MatchesAsyncPrefix(line, prefixes) ==
    \E i \in 1..Len(prefixes) : startsWith(line, prefixes[i])

\* Destinations without the return after the send to the async event queue
Destinations_NoReturn(line, prefixes) ==
    IF MatchesAsyncPrefix(line, prefixes) THEN <<"async", "response">> ELSE <<"response">>

\* Destinations with the test of the prefix inverted
Destinations_Inverted(line, prefixes) ==
    IF MatchesAsyncPrefix(line, prefixes) THEN <<"response">> ELSE <<"async">>


\* Destinations that falls back on the other queue when the queue of the
\* line's class is full
Destinations_Redirect(line, prefixes) ==
    IF MatchesAsyncPrefix(line, prefixes)
    THEN IF Len(asyncEventQueue) < asyncQueueSize THEN <<"async">> ELSE <<"response">>
    ELSE IF Len(responseQueue) < responseQueueSize THEN <<"response">> ELSE <<"async">>


\* Destinations with a line that ends with the prompt character always on
\* the response queue
Destinations_PromptToResponse(line, prefixes) ==
    IF /\ MatchesAsyncPrefix(line, prefixes)
       /\ ~(enablePrompt /\ line[Len(line)] = promptCharacter)
    THEN <<"async">> ELSE <<"response">>

\* the queues processLine calls xQueueSend on for a line, in order: the
\* async event queue and return at the first matching prefix, the
\* response queue after the loop
Destinations(line, prefixes) ==
    IF MatchesAsyncPrefix(line, prefixes) THEN <<"async">> ELSE <<"response">>

\* Callbacks with the callback called only for a line that will be queued
Callbacks_WhenRoom(line, prefixes, callback) ==
    IF /\ MatchesAsyncPrefix(line, prefixes)
       /\ callback
       /\ Len(asyncEventQueue) < asyncQueueSize
    THEN 1 ELSE 0

\* the number of calls of the callback processLine makes for a line
Callbacks(line, prefixes, callback) ==
    IF MatchesAsyncPrefix(line, prefixes) /\ callback THEN 1 ELSE 0


\* Calls with the send ahead of the callback
Calls_SendFirst(line, prefixes, callback) ==
    [i \in 1..Len(Destinations(line, prefixes)) |-> "xQueueSend"]
    \o [i \in 1..Callbacks(line, prefixes, callback) |-> "asyncCallback"]

\* the calls processLine makes for a line, in the order it makes them: the
\* callback (lines 302-304), then xQueueSend (line 305); for a line no
\* prefix starts, xQueueSend alone (line 310)
Calls(line, prefixes, callback) ==
    [i \in 1..Callbacks(line, prefixes, callback) |-> "asyncCallback"]
    \o [i \in 1..Len(Destinations(line, prefixes)) |-> "xQueueSend"]

\* xQueueSend that waits for room (xTicksToWait = portMAX_DELAY)
SendReturns_WhenRoom(queue, size) == Len(queue) < size

\* xQueueSend is called with xTicksToWait = 0: it returns at once, whether
\* or not the queue has room
SendReturns(queue, size) == TRUE

\* xQueueSend that makes room in a full queue by evicting the oldest item
xQueueSend_Evict(queue, size, item) ==
    IF Len(queue) < size THEN Append(queue, item) ELSE Append(Tail(queue), item)


\* xQueueSend that puts the new item at the front of the queue
\* (xQueueSendToFront)
xQueueSend_Front(queue, size, item) ==
    IF Len(queue) < size THEN <<item>> \o queue ELSE queue

\* xQueueSend(queue, &item, 0): append when there is room; with a zero wait
\* a full queue is left as it is and the call returns errQUEUE_FULL
xQueueSend(queue, size, item) ==
    IF Len(queue) < size THEN Append(queue, item) ELSE queue

\* the callers blocked in the loop of sendATCommandWithResponse with their
\* time budget not yet used up
InBudget ==
    {c \in tasks : /\ ctx[c].pc = "waiting"
                   /\ ctx[c].op = "sendATCommandWithResponse"
                   /\ Elapsed(ctx[c].startTime) < ctx[c].timeoutMs}

\* ModemHandler::processLine; lastLine records the call: the line, the
\* xQueueSend calls made and what each returned,
\* the calls of the callback, whether the response queue had room, and the
\* collectors that were waiting
processLine(line) ==
    LET linePtr == [id |-> nextId, str |-> line]
        dest == Destinations(line, asyncResponsePrefixes)
        sent(q) == \E i \in 1..Len(dest) : dest[i] = q
    IN  /\ sent("async") => SendReturns(asyncEventQueue, asyncQueueSize)
        /\ sent("response") => SendReturns(responseQueue, responseQueueSize)
        /\ nextId' = nextId + 1
        /\ heap' = heap \cup {linePtr.id}
        /\ asyncEventQueue' = IF sent("async")
                              THEN xQueueSend(asyncEventQueue, asyncQueueSize, linePtr)
                              ELSE asyncEventQueue
        /\ responseQueue' = IF sent("response")
                            THEN xQueueSend(responseQueue, responseQueueSize, linePtr)
                            ELSE responseQueue
        /\ lastLine' = [id |-> linePtr.id, str |-> line,
                        sends |-> [i \in 1..Len(dest) |->
                                     [queue |-> dest[i],
                                      ok |-> IF dest[i] = "async"
                                             THEN Len(asyncEventQueue) < asyncQueueSize
                                             ELSE Len(responseQueue) < responseQueueSize]],
                        callbacks |-> Callbacks(line, asyncResponsePrefixes, asyncCallback),
                        calls |-> Calls(line, asyncResponsePrefixes, asyncCallback),
                        room |-> Len(responseQueue) < responseQueueSize,
                        during |-> InBudget]

\* ---------------------------------------------------------------- framer

\* Frame without the test of enablePrompt
Frame_PromptAlways(buf, c, prompt, chr) ==
    IF c = CR \/ c = LF
    THEN IF buf # << >>
         THEN [deliver |-> TRUE, line |-> buf, buffer |-> << >>]
         ELSE [deliver |-> FALSE, line |-> << >>, buffer |-> buf]
    ELSE IF c = chr
         THEN [deliver |-> TRUE, line |-> Append(buf, c), buffer |-> << >>]
         ELSE [deliver |-> FALSE, line |-> << >>, buffer |-> Append(buf, c)]

\* Frame that delivers the buffer before it appends the prompt character
Frame_PromptNotAppended(buf, c, prompt, chr) ==
    IF c = CR \/ c = LF
    THEN IF buf # << >>
         THEN [deliver |-> TRUE, line |-> buf, buffer |-> << >>]
         ELSE [deliver |-> FALSE, line |-> << >>, buffer |-> buf]
    ELSE IF c = chr /\ prompt
         THEN [deliver |-> TRUE, line |-> buf, buffer |-> << >>]
         ELSE [deliver |-> FALSE, line |-> << >>, buffer |-> Append(buf, c)]

\* Frame without the test that the buffer is not empty
Frame_EmptyLines(buf, c, prompt, chr) ==
    IF c = CR \/ c = LF
    THEN [deliver |-> TRUE, line |-> buf, buffer |-> << >>]
    ELSE IF c = chr /\ prompt
         THEN [deliver |-> TRUE, line |-> Append(buf, c), buffer |-> << >>]
         ELSE [deliver |-> FALSE, line |-> << >>, buffer |-> Append(buf, c)]

\* one pass of the inner loop of readFromModemTask on byte c: whether it
\* calls processLine, on which line, and the buffer it leaves
Frame(buf, c, prompt, chr) ==
    IF c = CR \/ c = LF
    THEN IF buf # << >>
         THEN [deliver |-> TRUE, line |-> buf, buffer |-> << >>]
         ELSE [deliver |-> FALSE, line |-> << >>, buffer |-> buf]
    ELSE IF c = chr /\ prompt
         THEN [deliver |-> TRUE, line |-> Append(buf, c), buffer |-> << >>]
         ELSE [deliver |-> FALSE, line |-> << >>, buffer |-> Append(buf, c)]

\* ModemHandler::readFromModemTask, one pass of the inner loop:
\* serial->available() holds and serial->read() returns byte b
readFromModemTask(b) ==
    /\ started
    /\ emitted < MaxBytes
    /\ emitted' = emitted + 1
    /\ LET f == Frame(buffer, b, enablePrompt, promptCharacter) IN
       /\ buffer' = f.buffer
       /\ IF f.deliver
          THEN processLine(f.line)
          ELSE UNCHANGED <<alloc, queues>>
    /\ UNCHANGED <<tasks, upload, started, config, tx, clock, caller>>

\* --------------------------------------------------------------- callers
\* the call a caller is in: where it is (idle, waiting in xQueueReceive, or
\* done with its result not yet taken), the operation and its timeoutMs,
\* whether its output list is null, startTime, the time the current wait
\* began, the returned value, the items popped so far, and the identity
\* the next allocation had when the call began
IdleCtx ==
    [pc |-> "idle", op |-> "none", timeoutMs |-> 0, null |-> FALSE, startTime |-> 0,
     waitStart |-> 0, result |-> FALSE, popped |-> << >>, firstId |-> 0]

Idle(c) == c \in tasks /\ ctx[c].pc = "idle"

Collectors == {"sendATCommandWithResponse", "getResponses"}

\* QueueOf with the response queue in both single-line reads
QueueOf_Response(c) == responseQueue

\* the queue the call of caller c pops
QueueOf(c) == IF ctx[c].op = "getAsyncEvent" THEN asyncEventQueue ELSE responseQueue

\* LoopExit with the return of sendATCommandWithResponse in both collectors
LoopExit_NonEmpty(op, rs) == rs # << >>

\* the value returned after the loop of a collector (lines 348 and 399)
LoopExit(op, rs) == IF op = "sendATCommandWithResponse" THEN rs # << >> ELSE FALSE


\* LoopGuard with <= in the place of <
LoopGuard_Inclusive(startTime, timeoutMs) == Elapsed(startTime) <= timeoutMs

\* the loop guard millis() - startTime < timeoutMs (lines 337 and 389)
LoopGuard(startTime, timeoutMs) == Elapsed(startTime) < timeoutMs


\* pdMS_TO_TICKS replaced by a wait without end (portMAX_DELAY)
pdMS_TO_TICKS_Forever(timeoutMs) == MillisModulus

\* pdMS_TO_TICKS at a tick rate of 1000 Hz: the wait getResponse hands to
\* xQueueReceive is the caller's whole timeoutMs
pdMS_TO_TICKS(timeoutMs) == timeoutMs

\* a collector at its loop guard with output list rs: it blocks in
\* getResponse, or leaves the loop and returns
AtLoop(k, rs) ==
    IF LoopGuard(k.startTime, k.timeoutMs)
    THEN [k EXCEPT !.pc = "waiting", !.waitStart = now]
    ELSE [k EXCEPT !.pc = "done", !.waitStart = 0, !.result = LoopExit(k.op, rs)]

\* ModemHandler::sendATCommand: println(command) on the transport
sendATCommand(command) == tx \o command \o <<CR, LF>>


\* sendStringData that writes with println
sendStringData_Println(data) == tx \o data \o <<CR, LF>>

\* ModemHandler::sendStringData: print(data) on the transport
sendStringData(data) == tx \o data

\* clear that leaves the list as it was passed in
clear_Keep(rs) == rs

\* responses->clear()
clear(rs) == << >>

\* a call rejected by its null check: it returns false
Rejected(op) ==
    [IdleCtx EXCEPT !.pc = "done", !.op = op, !.null = TRUE,
                    !.firstId = nextId]


\* sendATCommandWithResponse that writes the command before it tests the
\* output list
sendATCommandWithResponse_SendFirst(c, command, vec, timeoutMs) ==
    /\ Idle(c)
    /\ started
    /\ tx' = sendATCommand(command)
    /\ IF vec.null
       THEN /\ ctx' = [ctx EXCEPT ![c] = Rejected("sendATCommandWithResponse")]
            /\ UNCHANGED responses
       ELSE /\ responses' = [responses EXCEPT ![c] = clear(vec.items)]
            /\ ctx' = [ctx EXCEPT ![c] =
                         AtLoop([IdleCtx EXCEPT !.op = "sendATCommandWithResponse",
                                    !.timeoutMs = timeoutMs, !.startTime = now,
                                    !.firstId = nextId],
                                clear(vec.items))]
    /\ UNCHANGED <<tasks, upload, started, config, buffer, queues, emitted, clock, alloc, out>>


\* sendATCommandWithResponse that empties the response queue before it
\* writes the command
sendATCommandWithResponse_Flush(c, command, vec, timeoutMs) ==
    /\ Idle(c)
    /\ started
    /\ IF vec.null
       THEN /\ ctx' = [ctx EXCEPT ![c] = Rejected("sendATCommandWithResponse")]
            /\ UNCHANGED <<tx, responses, responseQueue, heap>>
       ELSE /\ responseQueue' = << >>
            /\ heap' = heap \ {responseQueue[i].id : i \in 1..Len(responseQueue)}
            /\ tx' = sendATCommand(command)
            /\ responses' = [responses EXCEPT ![c] = clear(vec.items)]
            /\ ctx' = [ctx EXCEPT ![c] =
                         AtLoop([IdleCtx EXCEPT !.op = "sendATCommandWithResponse",
                                    !.timeoutMs = timeoutMs, !.startTime = now,
                                    !.firstId = nextId],
                                clear(vec.items))]
    /\ UNCHANGED <<tasks, upload, started, config, buffer, asyncEventQueue, emitted,
                   clock, nextId, lastLine, out>>

\* ModemHandler::sendATCommandWithResponse up to its first blocking point;
\* vec is the output list passed in, or NULL
sendATCommandWithResponse(c, command, vec, timeoutMs) ==
    /\ Idle(c)
    /\ started
    /\ IF vec.null
       THEN /\ ctx' = [ctx EXCEPT ![c] = Rejected("sendATCommandWithResponse")]
            /\ UNCHANGED <<tx, responses>>
       ELSE /\ tx' = sendATCommand(command)
            /\ responses' = [responses EXCEPT ![c] = clear(vec.items)]
            /\ ctx' = [ctx EXCEPT ![c] =
                         AtLoop([IdleCtx EXCEPT !.op = "sendATCommandWithResponse",
                                    !.timeoutMs = timeoutMs, !.startTime = now,
                                    !.firstId = nextId],
                                clear(vec.items))]
    /\ UNCHANGED <<tasks, upload, started, config, buffer, queues, emitted, clock, alloc, out>>

\* ModemHandler::getResponses up to its first blocking point
getResponses(c, vec, timeoutMs) ==
    /\ Idle(c)
    /\ started
    /\ IF vec.null
       THEN /\ ctx' = [ctx EXCEPT ![c] = Rejected("getResponses")]
            /\ UNCHANGED responses
       ELSE /\ responses' = [responses EXCEPT ![c] = clear(vec.items)]
            /\ ctx' = [ctx EXCEPT ![c] =
                         AtLoop([IdleCtx EXCEPT !.op = "getResponses",
                                    !.timeoutMs = timeoutMs, !.startTime = now,
                                    !.firstId = nextId],
                                clear(vec.items))]
    /\ UNCHANGED <<tasks, upload, started, config, buffer, queues, emitted, tx, clock, alloc, out>>

\* ModemHandler::getResponse and ModemHandler::getAsyncEvent called by the
\* client with String str: the call blocks in xQueueReceive
getLine(c, op, str, timeoutMs) ==
    /\ Idle(c)
    /\ started
    /\ out' = [out EXCEPT ![c] = str]
    /\ ctx' = [ctx EXCEPT ![c] = [IdleCtx EXCEPT !.pc = "waiting", !.op = op,
                                     !.timeoutMs = timeoutMs, !.startTime = now,
                                     !.waitStart = now, !.firstId = nextId]]
    /\ UNCHANGED <<tasks, upload, started, config, buffer, queues, emitted, tx, clock, alloc,
                   responses>>

\* Collect without the return at a line that ends the response
Collect_GoOn(k, rs, line) == AtLoop(k, rs)

\* getResponse in a collector: push_back, the test of isEndOfResponse, and
\* the way round the loop
Collect(k, rs, line) ==
    IF isEndOfResponse(line)
    THEN [k EXCEPT !.pc = "done", !.waitStart = 0, !.result = TRUE]
    ELSE AtLoop(k, rs)


\* Receive that copies the oldest item and leaves it in the queue
Receive_Peek(c) ==
    /\ c \in tasks
    /\ ctx[c].pc = "waiting"
    /\ QueueOf(c) # << >>
    /\ LET item == Head(QueueOf(c))
           k == [ctx[c] EXCEPT !.popped = Append(@, item)]
           rs == Append(responses[c], item.str)
       IN  /\ heap' = heap \ {item.id}
           /\ UNCHANGED <<responseQueue, asyncEventQueue>>
           /\ IF ctx[c].op \in Collectors
              THEN /\ responses' = [responses EXCEPT ![c] = rs]
                   /\ ctx' = [ctx EXCEPT ![c] = Collect(k, rs, item.str)]
                   /\ UNCHANGED out
              ELSE /\ out' = [out EXCEPT ![c] = item.str]
                   /\ ctx' = [ctx EXCEPT ![c] = [k EXCEPT !.pc = "done", !.waitStart = 0, !.result = TRUE]]
                   /\ UNCHANGED responses
    /\ UNCHANGED <<tasks, upload, started, config, buffer, emitted, tx, clock, nextId, lastLine>>

\* xQueueReceive returns pdTRUE: the oldest pointer leaves the queue, the
\* String is copied and deleted; a collector appends it, tests it and goes
\* on or returns
Receive(c) ==
    /\ c \in tasks
    /\ ctx[c].pc = "waiting"
    /\ QueueOf(c) # << >>
    /\ LET item == Head(QueueOf(c))
           k == [ctx[c] EXCEPT !.popped = Append(@, item)]
           rs == Append(responses[c], item.str)
       IN  /\ heap' = heap \ {item.id}
           /\ IF ctx[c].op = "getAsyncEvent"
              THEN asyncEventQueue' = Tail(QueueOf(c)) /\ UNCHANGED responseQueue
              ELSE responseQueue' = Tail(QueueOf(c)) /\ UNCHANGED asyncEventQueue
           /\ IF ctx[c].op \in Collectors
              THEN /\ responses' = [responses EXCEPT ![c] = rs]
                   /\ ctx' = [ctx EXCEPT ![c] = Collect(k, rs, item.str)]
                   /\ UNCHANGED out
              ELSE /\ out' = [out EXCEPT ![c] = item.str]
                   /\ ctx' = [ctx EXCEPT ![c] = [k EXCEPT !.pc = "done", !.waitStart = 0, !.result = TRUE]]
                   /\ UNCHANGED responses
    /\ UNCHANGED <<tasks, upload, started, config, buffer, emitted, tx, clock, nextId, lastLine>>

\* xQueueReceive returns pdFALSE: the queue stayed empty for the whole wait
ReceiveTimeout(c) ==
    /\ c \in tasks
    /\ ctx[c].pc = "waiting"
    /\ QueueOf(c) = << >>
    /\ Elapsed(ctx[c].waitStart) >= pdMS_TO_TICKS(ctx[c].timeoutMs)
    /\ ctx' = [ctx EXCEPT ![c] = [ctx[c] EXCEPT !.pc = "done",
                                     !.result = LoopExit(ctx[c].op, responses[c])]]
    /\ UNCHANGED <<tasks, upload, started, config, buffer, queues, emitted, tx, clock, alloc,
                   responses, out>>

\* the caller takes the returned value and its list or String and goes on
Return(c) ==
    /\ c \in tasks
    /\ ctx[c].pc = "done"
    /\ ctx' = [ctx EXCEPT ![c] = IdleCtx]
    /\ responses' = [responses EXCEPT ![c] = << >>]
    /\ out' = [out EXCEPT ![c] = << >>]
    /\ tx' = << >>
    /\ UNCHANGED <<tasks, upload, started, config, buffer, queues, emitted, clock, alloc>>

\* --------------------------------------------------------- configuration

\* the client calls sendATCommand on its own
sendATCommandCall(c, command) ==
    /\ Idle(c)
    /\ started
    /\ Len(tx) + Len(command) + 2 <= MaxTx
    /\ tx' = sendATCommand(command)
    /\ UNCHANGED <<tasks, upload, started, config, buffer, queues, emitted, clock, alloc,
                   caller>>

\* the client calls sendStringData on its own
sendStringDataCall(c, data) ==
    /\ Idle(c)
    /\ started
    /\ Len(tx) + Len(data) <= MaxTx
    /\ tx' = sendStringData(data)
    /\ UNCHANGED <<tasks, upload, started, config, buffer, queues, emitted, clock, alloc,
                   caller>>

setEnablePrompt(c, chr) ==
    /\ Idle(c)
    /\ promptCharacter' = chr
    /\ enablePrompt' = TRUE
    /\ UNCHANGED <<tasks, upload, started, asyncResponsePrefixes, responseEndCriteria, asyncCallback,
                   buffer, queues, emitted, tx, clock, alloc, caller>>


\* setDisablePrompt that also empties the buffer
setDisablePrompt_Flush(c) ==
    /\ Idle(c)
    /\ enablePrompt' = FALSE
    /\ buffer' = << >>
    /\ UNCHANGED <<tasks, upload, started, promptCharacter, asyncResponsePrefixes,
                   responseEndCriteria, asyncCallback, queues, emitted, tx,
                   clock, alloc, caller>>

setDisablePrompt(c) ==
    /\ Idle(c)
    /\ enablePrompt' = FALSE
    /\ UNCHANGED <<tasks, upload, started, promptCharacter, asyncResponsePrefixes,
                   responseEndCriteria, asyncCallback, buffer, queues, emitted, tx,
                   clock, alloc, caller>>


\* setAsyncResponsePrefixes that adds the new prefixes to those in force
setAsyncResponsePrefixes_Append(c, prefixes) ==
    /\ Idle(c)
    /\ asyncResponsePrefixes' = asyncResponsePrefixes \o prefixes
    /\ UNCHANGED <<tasks, upload, started, enablePrompt, promptCharacter, responseEndCriteria,
                   asyncCallback, buffer, queues, emitted, tx, clock, alloc, caller>>

setAsyncResponsePrefixes(c, prefixes) ==
    /\ Idle(c)
    /\ asyncResponsePrefixes' = prefixes
    /\ UNCHANGED <<tasks, upload, started, enablePrompt, promptCharacter, responseEndCriteria,
                   asyncCallback, buffer, queues, emitted, tx, clock, alloc, caller>>

setResponseEndCriteria(c, criteria) ==
    /\ Idle(c)
    /\ responseEndCriteria' = criteria
    /\ UNCHANGED <<tasks, upload, started, enablePrompt, promptCharacter, asyncResponsePrefixes,
                   asyncCallback, buffer, queues, emitted, tx, clock, alloc, caller>>

setAsyncCallback(c, callback) ==
    /\ Idle(c)
    /\ asyncCallback' = callback
    /\ UNCHANGED <<tasks, upload, started, enablePrompt, promptCharacter, asyncResponsePrefixes,
                   responseEndCriteria, buffer, queues, emitted, tx, clock, alloc, caller>>


\* begin that creates the reader task without the call of setDisablePrompt
begin_NoDisable(c) ==
    /\ Idle(c)
    /\ ~started
    /\ started' = TRUE
    /\ UNCHANGED <<tasks, upload, enablePrompt, promptCharacter, asyncResponsePrefixes,
                   responseEndCriteria, asyncCallback, buffer, queues, emitted, tx,
                   clock, alloc, caller>>

\* ModemHandler::begin: prompt mode off, then the reader task is created
begin(c) ==
    /\ Idle(c)
    /\ ~started
    /\ enablePrompt' = FALSE
    /\ started' = TRUE
    /\ UNCHANGED <<tasks, upload, promptCharacter, asyncResponsePrefixes, responseEndCriteria,
                   asyncCallback, buffer, queues, emitted, tx, clock, alloc, caller>>

\* ------------------------------------------------------------------ time
\* a caller whose xQueueReceive returns now: an item is there, or the wait
\* is over
Ready(c) ==
    /\ c \in tasks
    /\ ctx[c].pc = "waiting"
    /\ \/ QueueOf(c) # << >>
       \/ Elapsed(ctx[c].waitStart) >= pdMS_TO_TICKS(ctx[c].timeoutMs)

\* one millisecond passes while a call is blocked in xQueueReceive
Tick ==
    /\ ticks < MaxTicks
    /\ \E c \in tasks : ctx[c].pc = "waiting"
    /\ \A c \in tasks : ~Ready(c) /\ ctx[c].pc # "done"
    /\ now' = (now + 1) % MillisModulus
    /\ ticks' = ticks + 1
    /\ UNCHANGED <<tasks, upload, started, config, buffer, queues, emitted, tx, alloc, caller>>

\* ------------------------------------------------------- specifications
NoLine ==
    [id |-> 0, str |-> << >>, sends |-> << >>, callbacks |-> 0, calls |-> << >>,
     room |-> TRUE, during |-> {}]

\* the client is not in registerCaCertificate
NoUpload ==
    [pc |-> "none", variant |-> "none", prompt |-> FALSE, payload |-> FALSE,
     result |-> FALSE]

\* the state after the constructor: enablePrompt and promptCharacter have
\* no initialiser; millis() is two milliseconds before it wraps
InitCommon ==
    /\ started = FALSE
    /\ enablePrompt \in BOOLEAN
    /\ promptCharacter \in {">", "K"}
    /\ asyncResponsePrefixes = << >>
    /\ responseEndCriteria = << >>
    /\ asyncCallback = FALSE
    /\ buffer = << >>
    /\ responseQueue = << >>
    /\ asyncEventQueue = << >>
    /\ emitted = 0
    /\ tx = << >>
    /\ now = MillisModulus - 2
    /\ ticks = 0
    /\ nextId = 1
    /\ heap = {}
    /\ lastLine = NoLine
    /\ ctx = [c \in Callers |-> IdleCtx]
    /\ responses = [c \in Callers |-> << >>]
    /\ out = [c \in Callers |-> << >>]
    /\ upload = NoUpload

Init == InitCommon /\ tasks = {1}

Next ==
    \/ \E b \in Byte : readFromModemTask(b)
    \/ Tick
    \/ \E c \in Callers :
          \/ begin(c)
          \/ \E chr \in PromptChars : setEnablePrompt(c, chr)
          \/ setDisablePrompt(c)
          \/ \E prefixes \in PrefixLists : setAsyncResponsePrefixes(c, prefixes)
          \/ \E criteria \in CriteriaLists : setResponseEndCriteria(c, criteria)
          \/ setAsyncCallback(c, TRUE)
          \/ \E command \in Commands, vec \in Vectors, timeoutMs \in Timeouts :
                sendATCommandWithResponse(c, command, vec, timeoutMs)
          \/ \E vec \in Vectors, timeoutMs \in Timeouts :
                getResponses(c, vec, timeoutMs)
          \/ \E op \in {"getResponse", "getAsyncEvent"}, str \in Strings,
                timeoutMs \in PollTimeouts :
                getLine(c, op, str, timeoutMs)
          \/ Receive(c)
          \/ ReceiveTimeout(c)
          \/ Return(c)

Spec == Init /\ [][Next]_vars

\* the reader and clients that fill and drain the two queues as they like:
\* they set prompt mode and the async prefixes and poll either queue, or
\* never do
ReaderNext ==
    \/ \E b \in Byte : readFromModemTask(b)
    \/ \E c \in Callers :
          \/ begin(c)
          \/ \E chr \in PromptChars : setEnablePrompt(c, chr)
          \/ \E prefixes \in PrefixLists : setAsyncResponsePrefixes(c, prefixes)
          \/ \E op \in {"getResponse", "getAsyncEvent"}, str \in Strings,
                timeoutMs \in PollTimeouts :
                getLine(c, op, str, timeoutMs)
          \/ Receive(c)
          \/ ReceiveTimeout(c)
          \/ Return(c)

\* the reader task is scheduled: a byte the transport holds is read; nothing
\* is assumed of the callers
ReaderSpec ==
    Init /\ [][ReaderNext]_vars /\ WF_vars(\E b \in Byte : readFromModemTask(b))

\* the reader, the clock and clients that run the collectors, with prompt
\* mode and end criteria as they set them
CollectorNext ==
    \/ \E b \in Byte : readFromModemTask(b)
    \/ Tick
    \/ \E c \in Callers :
          \/ begin(c)
          \/ \E chr \in PromptChars : setEnablePrompt(c, chr)
          \/ \E criteria \in CriteriaLists : setResponseEndCriteria(c, criteria)
          \/ \E command \in Commands, vec \in Vectors, timeoutMs \in Timeouts :
                sendATCommandWithResponse(c, command, vec, timeoutMs)
          \/ \E vec \in Vectors, timeoutMs \in Timeouts :
                getResponses(c, vec, timeoutMs)
          \/ Receive(c)
          \/ ReceiveTimeout(c)
          \/ Return(c)

\* time passes and xQueueReceive returns: the tick interrupt runs, and a
\* blocked call is woken when an item is there or its wait is over
CollectorSpec ==
    /\ Init /\ [][CollectorNext]_vars
    /\ WF_vars(Tick)
    /\ \A c \in Callers : WF_vars(Receive(c)) /\ WF_vars(ReceiveTimeout(c))

\* the reader and a client that sets prompt mode and writes commands and
\* data to the transport
TransmitNext ==
    \/ \E b \in Byte : readFromModemTask(b)
    \/ \E c \in Callers :
          \/ begin(c)
          \/ \E chr \in PromptChars : setEnablePrompt(c, chr)
          \/ \E command \in Commands : sendATCommandCall(c, command)
          \/ \E data \in Payloads : sendStringDataCall(c, data)

TransmitSpec == Init /\ [][TransmitNext]_vars


\* the prompt characters of a client whose URCs consist of, or end with,
\* the character it chose as prompt
ClassifierPromptChars == {">", "+"}

\* the reader and clients that set prompt mode, the async prefixes and the
\* callback and poll either queue, or never do
ClassifierNext ==
    \/ \E b \in Byte : readFromModemTask(b)
    \/ \E c \in Callers :
          \/ begin(c)
          \/ \E chr \in ClassifierPromptChars : setEnablePrompt(c, chr)
          \/ \E prefixes \in PrefixLists : setAsyncResponsePrefixes(c, prefixes)
          \/ setAsyncCallback(c, TRUE)
          \/ \E op \in {"getResponse", "getAsyncEvent"}, str \in Strings,
                timeoutMs \in PollTimeouts :
                getLine(c, op, str, timeoutMs)
          \/ Receive(c)
          \/ ReceiveTimeout(c)
          \/ Return(c)

ClassifierSpec == Init /\ [][ClassifierNext]_vars


\* the reader and a client that turns prompt mode on and off and sets the
\* async prefixes and the end criteria
PromptNext ==
    \/ \E b \in Byte : readFromModemTask(b)
    \/ \E c \in Callers :
          \/ begin(c)
          \/ \E chr \in PromptChars : setEnablePrompt(c, chr)
          \/ setDisablePrompt(c)
          \/ \E prefixes \in PrefixLists : setAsyncResponsePrefixes(c, prefixes)
          \/ \E criteria \in CriteriaLists : setResponseEndCriteria(c, criteria)

PromptSpec == Init /\ [][PromptNext]_vars

\* two clients that run sendATCommandWithResponse at the same time; the
\* modem sends a byte of a command only once that command was written
TwoCallerInit == InitCommon /\ tasks = Callers

\* the reader reads a byte of the modem's answer to a command in progress
readReply(b) ==
    /\ b = CR \/ \E n \in 1..Len(tx) : tx[n] = b
    /\ readFromModemTask(b)

TwoCallerNext ==
    \/ \E b \in ReplyByte : readReply(b)
    \/ Tick
    \/ \E c \in Callers :
          \/ begin(c)
          \/ sendATCommandWithResponse(c, CommandOf(c),
                                       [null |-> FALSE, items |-> << >>], MaxTimeout)
          \/ Receive(c)
          \/ ReceiveTimeout(c)
          \/ Return(c)

TwoCallerSpec == TwoCallerInit /\ [][TwoCallerNext]_vars


\* ------------------------------------------ the certificate upload example
\* the two sketches that define registerCaCertificate
Sketches == {"resister_CA", "management_CA"}

\* responses.back()
back(rs) == rs[Len(rs)]

\* registerCaCertificate up to the point where sendATCommandWithResponse
\* blocks: prompt mode on with '>', the command written, the list cleared
registerCaCertificate(c, sketch, command) ==
    /\ Idle(c)
    /\ started
    /\ upload.pc \in {"none", "returned"}
    /\ promptCharacter' = ">"
    /\ enablePrompt' = TRUE
    /\ tx' = sendATCommand(command)
    /\ responses' = [responses EXCEPT ![c] = << >>]
    /\ ctx' = [ctx EXCEPT ![c] =
                 AtLoop([IdleCtx EXCEPT !.op = "sendATCommandWithResponse",
                            !.timeoutMs = MaxTimeout, !.startTime = now,
                            !.firstId = nextId],
                        << >>)]
    /\ upload' = [pc |-> "command", variant |-> sketch, prompt |-> FALSE,
                  payload |-> FALSE, result |-> FALSE]
    /\ UNCHANGED <<tasks, started, asyncResponsePrefixes, responseEndCriteria,
                   asyncCallback, buffer, queues, emitted, clock, alloc, out>>

\* registerCaCertificate from the return of sendATCommandWithResponse to the
\* point where getResponses blocks, or to its return: the test of the last
\* line for the prompt, setDisablePrompt, the PEM data written with
\* sendStringData, getResponses entered. upload.prompt records whether a
\* line of the result held the prompt character
sendPemData(c, pemData) ==
    /\ c \in tasks
    /\ upload.pc = "command"
    /\ ctx[c].pc = "done"
    /\ LET seen == \E i \in 1..Len(responses[c]) :
                       indexOf(responses[c][i], ">") # -1
           returns ==
               IF ctx[c].result
               THEN indexOf(back(responses[c]), ">") = -1
               ELSE upload.variant = "management_CA"
       IN  IF returns
           THEN /\ upload' = [upload EXCEPT !.pc = "returned", !.prompt = seen,
                                            !.result = FALSE]
                /\ ctx' = [ctx EXCEPT ![c] = IdleCtx]
                /\ responses' = [responses EXCEPT ![c] = << >>]
                /\ tx' = << >>
                /\ UNCHANGED enablePrompt
           ELSE /\ enablePrompt' = FALSE
                /\ tx' = sendStringData(pemData)
                /\ responses' = [responses EXCEPT ![c] = << >>]
                /\ ctx' = [ctx EXCEPT ![c] =
                             AtLoop([IdleCtx EXCEPT !.op = "getResponses",
                                        !.timeoutMs = MaxTimeout, !.startTime = now,
                                        !.firstId = nextId],
                                    << >>)]
                /\ upload' = [upload EXCEPT !.pc = "payload", !.prompt = seen,
                                            !.payload = TRUE]
    /\ UNCHANGED <<tasks, started, promptCharacter, asyncResponsePrefixes,
                   responseEndCriteria, asyncCallback, buffer, queues, emitted,
                   clock, alloc, out>>

\* registerCaCertificate from the return of getResponses to its own return:
\* true when getResponses returned true and the last line holds the final
\* result code (the character K stands for the text OK)
awaitRegistration(c) ==
    /\ c \in tasks
    /\ upload.pc = "payload"
    /\ ctx[c].pc = "done"
    /\ upload' = [upload EXCEPT !.pc = "returned",
                     !.result = IF ctx[c].result
                                THEN indexOf(back(responses[c]), "K") # -1
                                ELSE FALSE]
    /\ ctx' = [ctx EXCEPT ![c] = IdleCtx]
    /\ responses' = [responses EXCEPT ![c] = << >>]
    /\ tx' = << >>
    /\ UNCHANGED <<tasks, started, config, buffer, queues, emitted, clock, alloc, out>>

\* the reader, the clock and a client that sets the end criteria and runs
\* registerCaCertificate of either sketch
UploadNext ==
    \/ \E b \in Byte : readFromModemTask(b)
    \/ Tick
    \/ \E c \in Callers :
          \/ begin(c)
          \/ \E criteria \in CriteriaLists : setResponseEndCriteria(c, criteria)
          \/ \E sketch \in Sketches, command \in Commands :
                registerCaCertificate(c, sketch, command)
          \/ Receive(c)
          \/ ReceiveTimeout(c)
          \/ \E pemData \in Payloads : sendPemData(c, pemData)
          \/ awaitRegistration(c)

UploadSpec == Init /\ [][UploadNext]_vars

\* the matcher on its own: getResponses is blocked in getResponse, one line
\* is in the response queue, and prompt mode, the prompt character and the
\* end criteria are whatever the client configured
MatcherInit ==
    /\ tasks = {1}
    /\ started = TRUE
    /\ enablePrompt \in BOOLEAN
    /\ promptCharacter \in {">", "K"}
    /\ asyncResponsePrefixes = << >>
    /\ responseEndCriteria \in MatcherCriteria
    /\ asyncCallback = FALSE
    /\ buffer = << >>
    /\ \E line \in MatcherLines :
          /\ responseQueue = <<[id |-> 1, str |-> line]>>
          /\ lastLine = [id |-> 1, str |-> line,
                         sends |-> <<[queue |-> "response", ok |-> TRUE]>>,
                         callbacks |-> 0, calls |-> <<"xQueueSend">>,
                         room |-> TRUE, during |-> {}]
    /\ asyncEventQueue = << >>
    /\ emitted = MaxBytes
    /\ tx = << >>
    /\ now = MillisModulus - 2
    /\ ticks = 0
    /\ nextId = 2
    /\ heap = {1}
    /\ ctx = [c \in Callers |->
                IF c = 1
                THEN [IdleCtx EXCEPT !.pc = "waiting", !.op = "getResponses",
                                     !.timeoutMs = MaxTimeout, !.startTime = now,
                                     !.waitStart = now, !.firstId = 1]
                ELSE IdleCtx]
    /\ responses = [c \in Callers |-> << >>]
    /\ out = [c \in Callers |-> << >>]
    /\ upload = NoUpload

MatcherNext ==
    \/ Tick
    \/ \E c \in Callers :
          \/ Receive(c)
          \/ ReceiveTimeout(c)
          \/ Return(c)

MatcherSpec == MatcherInit /\ [][MatcherNext]_vars

\* ------------------------------------------------------------ properties
\* the lines of the items a call popped, in pop order
Lines(items) == [i \in 1..Len(items) |-> items[i].str]

\* caller c is back from a call of op that passed its null check and has
\* not yet taken the result
Returned(c, op) ==
    /\ c \in tasks
    /\ ctx[c].pc = "done"
    /\ ctx[c].op = op
    /\ ~ctx[c].null

\* some item the call of c popped ends the response
SomeEnd(c) == \E i \in 1..Len(ctx[c].popped) : isEndOfResponse(ctx[c].popped[i].str)

\* C1: sendATCommandWithResponse that collected at least one line, none of
\* which ends the response, returns false and the lines it popped are in
\* the output list.
C1_PartialTimeoutReturnsFalse ==
    \A c \in tasks :
        (/\ Returned(c, "sendATCommandWithResponse")
         /\ ctx[c].popped # << >>
         /\ ~SomeEnd(c))
        => /\ ctx[c].result = FALSE
           /\ responses[c] = Lines(ctx[c].popped)

\* C2: a collector is never blocked in a pop, and never returns, later than
\* timeoutMs after its start time.
C2_ReturnsWithinTimeout ==
    \A c \in tasks :
        (/\ ctx[c].pc \in {"waiting", "done"}
         /\ ctx[c].op \in Collectors
         /\ ~ctx[c].null)
        => Elapsed(ctx[c].startTime) <= ctx[c].timeoutMs

\* C3: when a line popped by sendATCommandWithResponse ends the response,
\* the call returns true, that line is the last one popped and the only
\* one that ends the response, the output list is the popped lines in pop
\* order, which is the order of arrival, and every line still in the
\* response queue arrived after it.
C3_ReturnsAtFirstMatch ==
    \A c \in tasks :
        (Returned(c, "sendATCommandWithResponse") /\ SomeEnd(c))
        => LET popped == ctx[c].popped
               k == Len(popped)
           IN  /\ ctx[c].result = TRUE
               /\ responses[c] = Lines(popped)
               /\ isEndOfResponse(popped[k].str)
               /\ \A i \in 1..(k - 1) : ~isEndOfResponse(popped[i].str)
               /\ \A i \in 1..(k - 1) : popped[i].id < popped[i + 1].id
               /\ \A j \in 1..Len(responseQueue) : popped[k].id < responseQueue[j].id

\* a call returned true on its second line: the first did not end the
\* response, the second did
C3_Witness ==
    \E c \in tasks :
        /\ Returned(c, "sendATCommandWithResponse")
        /\ Len(ctx[c].popped) >= 2
        /\ SomeEnd(c)
        /\ ctx[c].result = TRUE

\* C4: getResponses returns true exactly when the last line it popped ends
\* the response, and whatever it returns, the output list is the lines it
\* popped, in pop order.
C4_GetResponsesResult ==
    \A c \in tasks :
        Returned(c, "getResponses")
        => LET popped == ctx[c].popped IN
           /\ ctx[c].result <=> (popped # << >> /\ isEndOfResponse(popped[Len(popped)].str))
           /\ responses[c] = Lines(popped)

\* getResponses timed out and returned false with a line in its output list
C4_Witness ==
    \E c \in tasks :
        /\ Returned(c, "getResponses")
        /\ ctx[c].result = FALSE
        /\ responses[c] # << >>
        /\ Elapsed(ctx[c].startTime) >= ctx[c].timeoutMs

\* C5: sendATCommandWithResponse that popped no line returns false with an
\* empty output list, whatever the list held when it was passed in.
C5_NoLineReturnsEmptyFalse ==
    \A c \in tasks :
        (Returned(c, "sendATCommandWithResponse") /\ ctx[c].popped = << >>)
        => /\ ctx[c].result = FALSE
           /\ responses[c] = << >>

\* the deadline of a call with a positive timeoutMs elapsed with no line
C5_Witness ==
    \E c \in tasks :
        /\ Returned(c, "sendATCommandWithResponse")
        /\ ctx[c].popped = << >>
        /\ ctx[c].timeoutMs > 0
        /\ Elapsed(ctx[c].startTime) >= ctx[c].timeoutMs

\* the last character of a line
LastChar(line) == line[Len(line)]

\* the line processLine handled last ends with the prompt character and was
\* framed with prompt mode on, during the current call of c, while c was in
\* its loop with its time budget not used up and the response queue had room
PromptFramed(c) ==
    /\ enablePrompt
    /\ lastLine.id >= ctx[c].firstId
    /\ c \in lastLine.during
    /\ lastLine.room
    /\ lastLine.str # << >>
    /\ LastChar(lastLine.str) = promptCharacter

\* C6 as stated: whenever the prompt character arrives during a call of
\* sendATCommandWithResponse, before the deadline, the call returns true and
\* its last line ends with the prompt character.
C6_PromptAlwaysCompletes ==
    \A c \in tasks :
        (Returned(c, "sendATCommandWithResponse") /\ PromptFramed(c))
        => /\ ctx[c].result = TRUE
           /\ responses[c] # << >>
           /\ LastChar(responses[c][Len(responses[c])]) = promptCharacter

\* C6, amended: the same, for a prompt-terminated line that starts with no
\* async prefix and when no line the call popped before it ends the
\* response; the last line returned is then that line.
C6_PromptCompletes ==
    \A c \in tasks :
        (/\ Returned(c, "sendATCommandWithResponse")
         /\ PromptFramed(c)
         /\ ~MatchesAsyncPrefix(lastLine.str, asyncResponsePrefixes)
         /\ \A i \in 1..Len(ctx[c].popped) :
               ctx[c].popped[i].id < lastLine.id => ~isEndOfResponse(ctx[c].popped[i].str))
        => /\ ctx[c].result = TRUE
           /\ responses[c] # << >>
           /\ responses[c][Len(responses[c])] = lastLine.str
           /\ LastChar(responses[c][Len(responses[c])]) = promptCharacter

\* a call returned on a prompt-terminated line that the accumulator had
\* begun before the prompt character arrived
C6_Witness ==
    \E c \in tasks :
        /\ Returned(c, "sendATCommandWithResponse")
        /\ PromptFramed(c)
        /\ ~MatchesAsyncPrefix(lastLine.str, asyncResponsePrefixes)
        /\ Len(lastLine.str) >= 2
        /\ ctx[c].result = TRUE
        /\ responses[c] # << >>
        /\ responses[c][Len(responses[c])] = lastLine.str

\* C7: every call of processLine makes exactly one xQueueSend, on the async
\* event queue or on the response queue, and no String is in both queues
\* or twice in one.
C7_OneQueuePerLine ==
    /\ lastLine.id > 0 =>
          /\ Len(lastLine.sends) = 1
          /\ lastLine.sends[1].queue \in {"async", "response"}
          /\ lastLine.id = nextId - 1
    /\ \A i \in 1..Len(asyncEventQueue), j \in 1..Len(responseQueue) :
          asyncEventQueue[i].id # responseQueue[j].id
    /\ \A i, j \in 1..Len(responseQueue) :
          i # j => responseQueue[i].id # responseQueue[j].id
    /\ \A i, j \in 1..Len(asyncEventQueue) :
          i # j => asyncEventQueue[i].id # asyncEventQueue[j].id

\* lines were routed to both queues, the last one to the async event queue
C7_Witness ==
    /\ lastLine.id > 0
    /\ lastLine.sends[1].queue = "async"
    /\ asyncEventQueue # << >>
    /\ responseQueue # << >>

\* queue q is an initial part of queue r
IsPrefix(q, r) == Len(q) <= Len(r) /\ SubSeq(r, 1, Len(q)) = q

\* the item processLine made of the line it handled last
LastItem(l) == [id |-> l.id, str |-> l.str]

\* what a call of processLine may do to one queue of capacity size: leave it
\* alone when it is not the destination or it is full, append the new item
\* otherwise
SendTo(q, r, size, dest, l) ==
    /\ IsPrefix(q, r)
    /\ Len(r) <= size
    /\ Len(q) = size => r = q
    /\ (dest /\ Len(q) < size) => r = Append(q, LastItem(l))

\* C8: no queue ever holds more items than its capacity; a call of
\* processLine leaves the items already queued in place and in order,
\* appends the new line when the destination has room, and leaves a full
\* destination as it is. So of N+1 lines produced for a queue of capacity N
\* before any pop, the first N are queued in arrival order and the last is
\* discarded.
C8_OverflowDropsNewest ==
    /\ [](/\ Len(responseQueue) <= responseQueueSize
          /\ Len(asyncEventQueue) <= asyncQueueSize)
    /\ [][nextId' # nextId =>
            /\ SendTo(responseQueue, responseQueue', responseQueueSize,
                      lastLine'.sends[1].queue = "response", lastLine')
            /\ SendTo(asyncEventQueue, asyncEventQueue', asyncQueueSize,
                      lastLine'.sends[1].queue = "async", lastLine')]_vars

\* the response queue holds the first N lines in arrival order and line N+1,
\* produced for it before any pop, was discarded
C8_Witness ==
    /\ Len(responseQueue) = responseQueueSize
    /\ \A i \in 1..Len(responseQueue) : responseQueue[i].id = i
    /\ lastLine.id = responseQueueSize + 1
    /\ lastLine.sends = <<[queue |-> "response", ok |-> FALSE]>>

\* some prefix of the list is an initial part of the line
StartsWithSome(line, prefixes) ==
    \E i \in 1..Len(prefixes) :
        /\ Len(prefixes[i]) <= Len(line)
        /\ \A n \in 1..Len(prefixes[i]) : line[n] = prefixes[i][n]

\* C9: processLine sends a line to the async event queue if and only if the
\* line starts with a prefix of the async prefixes in force, and to the
\* response queue otherwise; a line that starts with such a prefix does not
\* enter the response queue, and a line that starts with none does not
\* enter the async event queue.
C9_ClassifierRule ==
    [][nextId' # nextId =>
         LET async == StartsWithSome(lastLine'.str, asyncResponsePrefixes) IN
         /\ Len(lastLine'.sends) = 1
         /\ lastLine'.sends[1].queue = (IF async THEN "async" ELSE "response")
         /\ async => responseQueue' = responseQueue
         /\ ~async => asyncEventQueue' = asyncEventQueue]_vars

\* a line longer than the prefix it starts with went to the async event
\* queue while a line that starts with no prefix is in the response queue
C9_Witness ==
    /\ lastLine.id > 0
    /\ lastLine.sends[1].queue = "async"
    /\ Len(lastLine.str) >= 2
    /\ \E i \in 1..Len(asyncEventQueue) : asyncEventQueue[i].id = lastLine.id

\* a line as the framer delivers it: not empty, no CR, no LF
WellFramed(line) ==
    /\ line # << >>
    /\ \A n \in 1..Len(line) : line[n] # CR /\ line[n] # LF

\* C10: on CR or LF the reader delivers a non-empty buffer as one line and
\* empties it, and does nothing when the buffer is empty; no line delivered
\* or queued is empty or holds a CR or LF, and the buffer holds neither.
C10_DelimiterRule ==
    /\ [](/\ \A n \in 1..Len(buffer) : buffer[n] # CR /\ buffer[n] # LF
          /\ lastLine.id > 0 => WellFramed(lastLine.str)
          /\ \A i \in 1..Len(responseQueue) : WellFramed(responseQueue[i].str)
          /\ \A i \in 1..Len(asyncEventQueue) : WellFramed(asyncEventQueue[i].str))
    /\ [][\A b \in {CR, LF} :
            readFromModemTask(b) =>
               IF buffer # << >>
               THEN /\ nextId' = nextId + 1
                    /\ lastLine'.str = buffer
                    /\ buffer' = << >>
               ELSE UNCHANGED <<buffer, nextId, lastLine, queues>>]_vars

\* three bytes were read, two of them delimiters, and one line was delivered
C10_Witness ==
    /\ emitted = 3
    /\ nextId = 2
    /\ buffer = << >>
    /\ lastLine.str = <<"K">>

\* byte b completes a line: a delimiter, or the prompt character with
\* prompt mode on
Completes(b) == b = CR \/ b = LF \/ (enablePrompt /\ b = promptCharacter)

\* C11: a byte that is no CR, no LF and (with prompt mode on) not the prompt
\* character is appended to the buffer, after the bytes already there; the
\* step calls processLine on nothing: no String is allocated, no queue
\* changes and the callback is not called.
C11_NoLineBeforeComplete ==
    [][\A b \in Byte :
         (readFromModemTask(b) /\ ~Completes(b)) =>
            /\ buffer' = Append(buffer, b)
            /\ UNCHANGED <<nextId, heap, lastLine, responseQueue, asyncEventQueue>>]_vars

\* every byte read so far is in the buffer, the prompt character among them
\* with prompt mode off, and processLine was never called
C11_Witness ==
    /\ emitted = MaxBytes
    /\ Len(buffer) = MaxBytes
    /\ \E n \in 1..Len(buffer) : buffer[n] = promptCharacter
    /\ ~enablePrompt
    /\ nextId = 1
    /\ lastLine = NoLine

\* C12: with prompt mode on, a byte equal to the prompt character (no CR, no
\* LF) is appended to the buffer, the buffer with that byte is handed to
\* processLine in the same step, and the buffer is empty afterwards; an
\* empty buffer gives the line that is the prompt character alone. The
\* line ends the response whatever the end criteria are.
C12_PromptFraming ==
    [][\A b \in Byte :
         (readFromModemTask(b) /\ enablePrompt /\ b = promptCharacter /\ b # CR /\ b # LF) =>
            /\ nextId' = nextId + 1
            /\ lastLine'.id = nextId
            /\ lastLine'.str = Append(buffer, b)
            /\ buffer = << >> => lastLine'.str = <<b>>
            /\ buffer' = << >>
            /\ \A criteria \in CriteriaLists :
                  EndOfResponse(lastLine'.str, enablePrompt, promptCharacter, criteria)]_vars

\* the only byte read so far was the prompt character, and it was delivered
\* as a line of its own
C12_Witness ==
    /\ enablePrompt
    /\ emitted = 1
    /\ nextId = 2
    /\ lastLine.str = <<promptCharacter>>
    /\ buffer = << >>

\* character ch occurs in the line
Contains(line, ch) == \E n \in 1..Len(line) : line[n] = ch

\* the criterion holds the wildcard marker
HasMarker(criterion) == Contains(criterion, "*")

\* the text of a criterion before its wildcard marker
BeforeMarker(criterion) ==
    LET n == CHOOSE n \in 1..Len(criterion) :
                 criterion[n] = "*" /\ \A m \in 1..(n - 1) : criterion[m] # "*"
    IN  [m \in 1..(n - 1) |-> criterion[m]]

\* some criterion with a marker has its text before the marker at the start
\* of the line, or some criterion without a marker is the whole line
MatchesCriteria(line, criteria) ==
    \E i \in 1..Len(criteria) :
        IF HasMarker(criteria[i])
        THEN StartsWithSome(line, <<BeforeMarker(criteria[i])>>)
        ELSE line = criteria[i]

\* getResponses of caller c is back and popped exactly one line: it
\* returned true if isEndOfResponse held of that line and false if not
Matched(c) ==
    /\ Returned(c, "getResponses")
    /\ Len(ctx[c].popped) = 1

\* C13: with prompt mode on, a line that holds the prompt character at any
\* position ends the response for every list of end criteria, the empty
\* list included; with prompt mode off, a line that holds the prompt
\* character ends the response only if the end criteria say so.
C13_PromptOverride ==
    \A c \in tasks :
        (Matched(c) /\ Contains(ctx[c].popped[1].str, promptCharacter)) =>
            IF enablePrompt
            THEN ctx[c].result = TRUE
            ELSE ctx[c].result = MatchesCriteria(ctx[c].popped[1].str, responseEndCriteria)

\* with no end criteria and prompt mode on, a line that begins with the
\* prompt character and ends with another character ended the response
C13_Witness ==
    \E c \in tasks :
        /\ Matched(c)
        /\ enablePrompt
        /\ responseEndCriteria = << >>
        /\ Len(ctx[c].popped[1].str) >= 2
        /\ ctx[c].popped[1].str[1] = promptCharacter
        /\ LastChar(ctx[c].popped[1].str) # promptCharacter
        /\ ctx[c].result = TRUE

\* C14: with prompt mode off, a line ends the response if and only if some
\* end criterion holds the marker '*' and the line starts with the text
\* before the marker, or holds no marker and is equal to the line.
C14_CriteriaSemantics ==
    \A c \in tasks :
        (Matched(c) /\ ~enablePrompt) =>
            ctx[c].result = MatchesCriteria(ctx[c].popped[1].str, responseEndCriteria)

\* with prompt mode off and the criteria "K" and "+K*", the line "+K>"
\* ended the response
C14_Witness ==
    \E c \in tasks :
        /\ Matched(c)
        /\ ~enablePrompt
        /\ responseEndCriteria = << <<"K">>, <<"+", "K", "*">> >>
        /\ ctx[c].popped[1].str = <<"+", "K", ">">>
        /\ ctx[c].result = TRUE

\* the number of prefixes of the list that start the line
MatchCount(line, prefixes) ==
    Cardinality({i \in 1..Len(prefixes) : StartsWithSome(line, <<prefixes[i]>>)})

\* C15: a step that classifies a line is a step of the reader task and
\* reads one byte. For a line that starts with an async prefix, with a
\* callback registered, processLine calls the callback once, however many
\* prefixes start the line, and then makes its one xQueueSend, on the async
\* event queue. For any other line it never calls the callback.
C15_HookOrdering ==
    [][nextId' # nextId =>
         LET async == MatchCount(lastLine'.str, asyncResponsePrefixes) >= 1 IN
         /\ \E b \in Byte : readFromModemTask(b)
         /\ emitted' = emitted + 1
         /\ IF async /\ asyncCallback
            THEN /\ lastLine'.callbacks = 1
                 /\ lastLine'.calls = <<"asyncCallback", "xQueueSend">>
                 /\ lastLine'.sends[1].queue = "async"
            ELSE /\ lastLine'.callbacks = 0
                 /\ lastLine'.calls = <<"xQueueSend">>
         /\ lastLine'.sends[1].queue = "response" => lastLine'.callbacks = 0]_vars

\* two prefixes start the line handled last; the callback was called once,
\* ahead of the send
C15_Witness ==
    /\ lastLine.id > 0
    /\ MatchCount(lastLine.str, asyncResponsePrefixes) = 2
    /\ asyncCallback
    /\ lastLine.callbacks = 1
    /\ lastLine.calls = <<"asyncCallback", "xQueueSend">>

\* C16: sendATCommandWithResponse and getResponses called with a null output
\* list return false in the same step: nothing is written to the transport,
\* nothing is popped, and both queues are as they were.
C16_NullListRejected ==
    [][\A c \in tasks, command \in Commands, timeoutMs \in Timeouts :
         (\/ sendATCommandWithResponse(c, command, NULL, timeoutMs)
          \/ getResponses(c, NULL, timeoutMs)) =>
            /\ ctx'[c].pc = "done"
            /\ ctx'[c].result = FALSE
            /\ ctx'[c].popped = << >>
            /\ UNCHANGED <<tx, responseQueue, asyncEventQueue, heap, responses>>]_vars

\* sendATCommandWithResponse was rejected with a line waiting in the
\* response queue: the line is still there and nothing was written
C16_Witness ==
    \E c \in tasks :
        /\ ctx[c].pc = "done"
        /\ ctx[c].op = "sendATCommandWithResponse"
        /\ ctx[c].null
        /\ ctx[c].result = FALSE
        /\ responseQueue # << >>
        /\ tx = << >>

\* C17: while the reader task runs and the transport has a byte, the
\* reader's step on that byte can be taken, whichever byte it is and
\* whatever the two queues hold: xQueueSend on a full queue returns at
\* once. So once the reader task runs it reads every byte of the
\* transport, whether or not any caller ever pops.
C17_ReaderNeverBlocks ==
    /\ [](\A b \in Byte :
            (started /\ emitted < MaxBytes) => ENABLED readFromModemTask(b))
    /\ started ~> (emitted = MaxBytes)

\* every byte was read although the response queue was full when the last
\* line was sent to it and the async event queue was never read
C17_Witness ==
    /\ emitted = MaxBytes
    /\ Len(responseQueue) = responseQueueSize
    /\ lastLine.sends = <<[queue |-> "response", ok |-> FALSE]>>
    /\ lastLine.id = emitted

\* caller c is back from a collector that passed its null check
Collected(c) ==
    Returned(c, "sendATCommandWithResponse") \/ Returned(c, "getResponses")

\* the clock of the model has stopped before the wait of caller c is over
ClockStopped(c) ==
    /\ ticks = MaxTicks
    /\ ctx[c].pc = "waiting"
    /\ QueueOf(c) = << >>
    /\ Elapsed(ctx[c].waitStart) < ctx[c].timeoutMs

\* C18: a collector that is back left its loop because the line it popped
\* last ends the response or because timeoutMs have passed since its start;
\* and a collector blocked in its loop returns in the end, whatever the
\* modem sends, unless the clock of the model stops first.
C18_CollectorTerminates ==
    /\ [](\A c \in tasks :
            Collected(c) =>
               \/ /\ ctx[c].popped # << >>
                  /\ isEndOfResponse(ctx[c].popped[Len(ctx[c].popped)].str)
               \/ Elapsed(ctx[c].startTime) >= ctx[c].timeoutMs)
    /\ \A c \in Callers :
          (ctx[c].pc = "waiting" /\ ctx[c].op \in Collectors)
          ~> (ctx[c].pc = "done" \/ ClockStopped(c))

\* sendATCommandWithResponse is back after its time ran out in a wait that
\* began after a line that does not end the response
C18_Witness ==
    \E c \in tasks :
        /\ Returned(c, "sendATCommandWithResponse")
        /\ ctx[c].popped # << >>
        /\ ~SomeEnd(c)
        /\ ctx[c].timeoutMs > 0
        /\ Elapsed(ctx[c].startTime) > ctx[c].timeoutMs

\* C19: setAsyncResponsePrefixes leaves exactly the list it was given in
\* force, whatever was in force before, and setResponseEndCriteria does the
\* same for the end criteria; neither touches the other list. So a second
\* call replaces the list of the first, and a call with the list that is in
\* force changes nothing.
C19_ReconfigurationReplaces ==
    [][/\ \A c \in tasks, prefixes \in PrefixLists :
            setAsyncResponsePrefixes(c, prefixes) =>
               /\ asyncResponsePrefixes' = prefixes
               /\ responseEndCriteria' = responseEndCriteria
               /\ prefixes = asyncResponsePrefixes => UNCHANGED vars
       /\ \A c \in tasks, criteria \in CriteriaLists :
            setResponseEndCriteria(c, criteria) =>
               /\ responseEndCriteria' = criteria
               /\ asyncResponsePrefixes' = asyncResponsePrefixes
               /\ criteria = responseEndCriteria => UNCHANGED vars]_vars

\* the line handled last was sent to the async event queue under a list of
\* prefixes set by the client; the empty list was set after it and is the
\* list in force, with nothing left of the first
C19_Witness ==
    /\ lastLine.id > 0
    /\ lastLine.sends[1].queue = "async"
    /\ asyncResponsePrefixes = << >>
    /\ responseEndCriteria # << >>
    /\ buffer # << >>

\* C20: getResponse that returns true hands out the oldest line of the
\* response queue and removes that line and no other; getResponse that
\* returns false found the queue empty and leaves the queue and its String
\* argument as they were; neither changes the async event queue.
\* getAsyncEvent does the same on the async event queue and never changes
\* the response queue.
C20_SingleLineReads ==
    [][\A c \in tasks :
         (/\ ctx[c].pc = "waiting"
          /\ ctx[c].op \in {"getResponse", "getAsyncEvent"}
          /\ ctx'[c].pc = "done") =>
            LET resp == ctx[c].op = "getResponse"
                own == IF resp THEN responseQueue ELSE asyncEventQueue
                ownNext == IF resp THEN responseQueue' ELSE asyncEventQueue'
                other == IF resp THEN asyncEventQueue ELSE responseQueue
                otherNext == IF resp THEN asyncEventQueue' ELSE responseQueue'
            IN  /\ otherNext = other
                /\ IF ctx'[c].result
                   THEN /\ own # << >>
                        /\ out'[c] = own[1].str
                        /\ ownNext = SubSeq(own, 2, Len(own))
                        /\ heap' = heap \ {own[1].id}
                   ELSE /\ own = << >>
                        /\ ownNext = own
                        /\ out'[c] = out[c]
                        /\ heap' = heap]_vars

\* getAsyncEvent handed out a line while the response queue held lines
C20_Witness ==
    \E c \in tasks :
        /\ ctx[c].pc = "done"
        /\ ctx[c].op = "getAsyncEvent"
        /\ ctx[c].result = TRUE
        /\ Len(ctx[c].popped) = 1
        /\ out[c] = ctx[c].popped[1].str
        /\ responseQueue # << >>

\* C21: sendATCommand writes the command and then CR LF to the transport,
\* sendStringData writes the data and nothing else; both leave the buffer,
\* the two queues, the async prefixes, the end criteria and prompt mode as
\* they are.
C21_TransmitOnly ==
    [][/\ \A c \in tasks, command \in Commands :
            sendATCommandCall(c, command) =>
               /\ tx' = tx \o command \o <<"\r", "\n">>
               /\ UNCHANGED <<buffer, responseQueue, asyncEventQueue, config>>
       /\ \A c \in tasks, data \in Payloads :
            sendStringDataCall(c, data) =>
               /\ tx' = tx \o data
               /\ UNCHANGED <<buffer, responseQueue, asyncEventQueue, config>>]_vars

\* a command and then data were written while the buffer and the response
\* queue held something and prompt mode was on
C21_Witness ==
    /\ tx = <<"A", "\r", "\n", "P">>
    /\ buffer # << >>
    /\ responseQueue # << >>
    /\ enablePrompt

\* the identities of the items a call popped
PoppedIds(c) == {ctx[c].popped[i].id : i \in 1..Len(ctx[c].popped)}

\* C22: with two callers in sendATCommandWithResponse at the same time,
\* every item popped from the response queue is handed to one caller, once:
\* no item is in the lists of both callers, twice in one list, or still in
\* the queue; and a caller's list holds the lines of the items it popped.
\* (The witness is the state the claim says is reachable: a caller's list
\* holds the line the modem sent for the other caller's command.)
C22_PoppedOnce ==
    /\ \A c, d \in tasks : c # d => PoppedIds(c) \cap PoppedIds(d) = {}
    /\ \A c \in tasks : Cardinality(PoppedIds(c)) = Len(ctx[c].popped)
    /\ \A c \in tasks, n \in 1..Len(responseQueue) : responseQueue[n].id \notin PoppedIds(c)
    /\ \A c \in tasks : ctx[c].op \in Collectors => responses[c] = Lines(ctx[c].popped)

\* both callers are in a call and the list of one holds the line that
\* answers the command of the other
C22_Witness ==
    \E c, d \in tasks :
        /\ c # d
        /\ ctx[c].op = "sendATCommandWithResponse" /\ ctx[c].pc # "idle"
        /\ ctx[d].op = "sendATCommandWithResponse" /\ ctx[d].pc # "idle"
        /\ \E i \in 1..Len(responses[c]) : responses[c][i] = CommandOf(d)

\* C23: setDisablePrompt turns prompt mode off and setEnablePrompt turns it
\* on with the character given; both leave the buffer, the two queues, the
\* async prefixes and the end criteria as they are. Right after
\* setDisablePrompt every line ends the response exactly when the end
\* criteria say so, and with prompt mode off the reader appends the former
\* prompt character to the buffer and delivers nothing.
C23_PromptNoResidue ==
    [][/\ \A c \in tasks :
            setDisablePrompt(c) =>
               /\ enablePrompt' = FALSE
               /\ UNCHANGED <<buffer, responseQueue, asyncEventQueue,
                              asyncResponsePrefixes, responseEndCriteria>>
               /\ \A line \in MatcherLines :
                     EndOfResponse(line, enablePrompt', promptCharacter',
                                   responseEndCriteria')
                     = MatchesCriteria(line, responseEndCriteria)
       /\ \A c \in tasks, chr \in PromptChars :
            setEnablePrompt(c, chr) =>
               /\ enablePrompt' = TRUE
               /\ promptCharacter' = chr
               /\ UNCHANGED <<buffer, responseQueue, asyncEventQueue,
                              asyncResponsePrefixes, responseEndCriteria>>
       /\ (~enablePrompt /\ readFromModemTask(promptCharacter)) =>
               /\ buffer' = Append(buffer, promptCharacter)
               /\ UNCHANGED <<nextId, lastLine, responseQueue, asyncEventQueue>>]_vars

\* the prompt character was delivered as a line of its own while prompt
\* mode was on; with prompt mode off again, the next one is in the buffer
C23_Witness ==
    /\ ~enablePrompt
    /\ emitted = 2
    /\ nextId = 2
    /\ lastLine.str = <<promptCharacter>>
    /\ buffer = <<promptCharacter>>

\* C25: every String the classifier has allocated and nobody has deleted is
\* held in one of the two queues, and in one place only.
C25_NoLeakedLine ==
    \A id \in heap :
        Cardinality({i \in 1..Len(responseQueue) : responseQueue[i].id = id})
        + Cardinality({i \in 1..Len(asyncEventQueue) : asyncEventQueue[i].id = id})
        = 1

\* C24: in registerCaCertificate the PEM data is written only after a line
\* holding the prompt character was in the result of
\* sendATCommandWithResponse.
C24_PayloadAfterPrompt ==
    upload.payload => upload.prompt

\* C26: whenever registerCaCertificate has returned, prompt mode is off.
C26_PromptOffAtReturn ==
    upload.pc = "returned" => ~enablePrompt

\* the String with identity id is in neither queue
InNoQueue(id) ==
    /\ \A i \in 1..Len(responseQueue) : responseQueue[i].id # id
    /\ \A i \in 1..Len(asyncEventQueue) : asyncEventQueue[i].id # id

\* C27: a line that starts with an async prefix and arrives while the async
\* event queue is full leaves both queues as they were, and so does a line
\* that starts with none and arrives while the response queue is full; the
\* line that was dropped is in no queue afterwards, so no pop returns it,
\* and the reader step that dropped it is a step like any other.
C27_OverflowNotRedirected ==
    /\ [][nextId' # nextId =>
            LET async == StartsWithSome(lastLine'.str, asyncResponsePrefixes)
                full == IF async
                        THEN Len(asyncEventQueue) = asyncQueueSize
                        ELSE Len(responseQueue) = responseQueueSize
            IN  /\ full => /\ responseQueue' = responseQueue
                           /\ asyncEventQueue' = asyncEventQueue
                           /\ InNoQueue(lastLine'.id)
                /\ emitted' = emitted + 1
                /\ UNCHANGED <<ctx, responses, out>>]_vars
    /\ []((lastLine.id > 0 /\ ~lastLine.sends[1].ok) => InNoQueue(lastLine.id))

\* an async line arrived while the async event queue was full and the
\* response queue had room: it is in neither
C27_Witness ==
    /\ lastLine.id > 0
    /\ StartsWithSome(lastLine.str, asyncResponsePrefixes)
    /\ lastLine.sends = <<[queue |-> "async", ok |-> FALSE]>>
    /\ Len(asyncEventQueue) = asyncQueueSize
    /\ Len(responseQueue) < responseQueueSize
    /\ InNoQueue(lastLine.id)

\* C29: for a line that starts with an async prefix while a callback is
\* registered, processLine calls the callback whether or not the async event
\* queue has room; so every line that enters the async event queue while a
\* callback is registered was passed to the callback, and lines that were
\* dropped were passed to it too.
C29_HookIgnoresOverflow ==
    [][nextId' # nextId =>
         LET async == StartsWithSome(lastLine'.str, asyncResponsePrefixes) IN
         /\ (async /\ asyncCallback) =>
               /\ lastLine'.callbacks = 1
               /\ Len(asyncEventQueue) = asyncQueueSize =>
                     /\ asyncEventQueue' = asyncEventQueue
                     /\ InNoQueue(lastLine'.id)
         /\ (asyncEventQueue' # asyncEventQueue /\ asyncCallback) =>
               /\ asyncEventQueue' = Append(asyncEventQueue, LastItem(lastLine'))
               /\ lastLine'.callbacks = 1]_vars

\* the callback was called for a line that the full async event queue did
\* not take
C29_Witness ==
    /\ lastLine.id > 0
    /\ asyncCallback
    /\ lastLine.callbacks = 1
    /\ lastLine.sends = <<[queue |-> "async", ok |-> FALSE]>>
    /\ InNoQueue(lastLine.id)

\* caller c is in a collector that was given a list
Collecting(c) ==
    c \in tasks /\ ctx[c].op \in Collectors /\ ~ctx[c].null

\* C28: the step that enters sendATCommandWithResponse or getResponses
\* leaves the response queue as it is. The lines a collector pops come out
\* in the order they were allocated, so those that were queued before the
\* call come first in the list, and the list is the lines popped. When a
\* line queued before the call ends the response, the call has returned
\* true on it, it is the last of the list, and no line classified after the
\* call began is in the list.
C28_StaleLinesKept ==
    /\ [][\A c \in tasks :
            (ctx[c].pc = "idle" /\ ctx'[c].op \in Collectors) =>
                /\ responseQueue' = responseQueue
                /\ asyncEventQueue' = asyncEventQueue]_vars
    /\ [](\A c \in Callers :
            Collecting(c) =>
               LET p == ctx[c].popped IN
               /\ responses[c] = Lines(p)
               /\ \A i, j \in 1..Len(p) : i < j => p[i].id < p[j].id
               /\ \A i \in 1..Len(p) :
                     (p[i].id < ctx[c].firstId /\ isEndOfResponse(p[i].str)) =>
                        /\ i = Len(p)
                        /\ ctx[c].pc = "done"
                        /\ ctx[c].result = TRUE
                        /\ \A j \in 1..Len(p) : p[j].id < ctx[c].firstId)

\* sendATCommandWithResponse returned true on a line that was queued before
\* it was called, while a line classified after the call began is still in
\* the response queue
C28_Witness ==
    \E c \in tasks :
        /\ ctx[c].op = "sendATCommandWithResponse"
        /\ ctx[c].pc = "done"
        /\ ctx[c].result = TRUE
        /\ ctx[c].popped # << >>
        /\ \A i \in 1..Len(ctx[c].popped) : ctx[c].popped[i].id < ctx[c].firstId
        /\ \E i \in 1..Len(responseQueue) : responseQueue[i].id >= ctx[c].firstId

\* the reader reads the prompt character with prompt mode on, and the
\* buffer with that character appended starts with an async prefix
AsyncPrompt(b) ==
    /\ enablePrompt
    /\ b = promptCharacter
    /\ b # CR /\ b # LF
    /\ StartsWithSome(Append(buffer, b), asyncResponsePrefixes)

\* C30: when the reader reads the prompt character with prompt mode on and
\* the line it completes starts with an async prefix, processLine sends that
\* line, prompt character included, to the async event queue and leaves the
\* response queue as it is; no collector has the line in its list, and no
\* call changes its state in that step.
C30_PromptLineClassified ==
    /\ [][\A b \in Byte :
            (AsyncPrompt(b) /\ readFromModemTask(b)) =>
                /\ lastLine'.str = Append(buffer, b)
                /\ lastLine'.sends[1].queue = "async"
                /\ responseQueue' = responseQueue
                /\ Len(asyncEventQueue) < asyncQueueSize =>
                      asyncEventQueue' = Append(asyncEventQueue, LastItem(lastLine'))
                /\ UNCHANGED <<ctx, responses>>]_vars
    /\ [](\A c \in Callers :
            (Collecting(c) /\ lastLine.id > 0 /\ lastLine.sends[1].queue = "async") =>
                /\ lastLine.id \notin PoppedIds(c)
                /\ \A i \in 1..Len(responseQueue) : responseQueue[i].id # lastLine.id)

\* a line that starts with an async prefix and ends with the prompt
\* character arrived while sendATCommandWithResponse was waiting with prompt
\* mode on; the call saw no line and returned false at its timeout
C30_Witness ==
    \E c \in tasks :
        /\ enablePrompt
        /\ Len(lastLine.str) >= 2
        /\ LastChar(lastLine.str) = promptCharacter
        /\ StartsWithSome(lastLine.str, asyncResponsePrefixes)
        /\ lastLine.sends[1].queue = "async"
        /\ c \in lastLine.during
        /\ ctx[c].op = "sendATCommandWithResponse"
        /\ ctx[c].pc = "done"
        /\ ctx[c].result = FALSE
        /\ ctx[c].popped = << >>

\* the items of a queue are in the order of their allocation, each once
Ascending(q) ==
    \A i, j \in 1..Len(q) : i < j => q[i].id < q[j].id

\* what one step may do to a queue: nothing, remove its oldest item, which
\* a caller that pops this queue then holds as the last it popped, or add
\* the line processLine has just been called on behind all others
QueueStep(q, r, async) ==
    \/ r = q
    \/ /\ q # << >>
       /\ r = Tail(q)
       /\ \E c \in tasks :
             /\ (ctx[c].op = "getAsyncEvent") = async
             /\ ctx'[c].popped = Append(ctx[c].popped, Head(q))
       /\ \A i \in 1..Len(r) : Head(q).id < r[i].id
    \/ /\ nextId' = nextId + 1
       /\ r = Append(q, [id |-> nextId, str |-> lastLine'.str])
       /\ \E b \in Byte : Frame(buffer, b, enablePrompt, promptCharacter)
                          = [deliver |-> TRUE, line |-> lastLine'.str, buffer |-> buffer']

\* C31: each queue holds lines in the order the framer completed them and
\* no line twice; a step removes the oldest item of a queue and hands it to
\* the caller that pops, or adds the line just completed at the end, or
\* leaves the queue alone. So the lines popped from a queue are a
\* subsequence, in completion order, of the lines completed for it, and the
\* items one call popped are in that order too.
C31_OrderPreserved ==
    /\ [](/\ Ascending(responseQueue)
          /\ Ascending(asyncEventQueue)
          /\ \A i \in 1..Len(responseQueue) : responseQueue[i].id < nextId
          /\ \A i \in 1..Len(asyncEventQueue) : asyncEventQueue[i].id < nextId
          /\ \A c \in Callers :
                /\ Ascending(ctx[c].popped)
                /\ \A i \in 1..Len(ctx[c].popped), j \in 1..Len(QueueOf(c)) :
                      ctx[c].popped[i].id < QueueOf(c)[j].id)
    /\ [][/\ QueueStep(responseQueue, responseQueue', FALSE)
          /\ QueueStep(asyncEventQueue, asyncEventQueue', TRUE)]_vars

\* three lines were completed for the response queue of two; one call
\* popped the first two in their order and the third was lost to overflow
C31_Witness ==
    \E c \in tasks :
        /\ Len(ctx[c].popped) = responseQueueSize
        /\ \A i \in 1..Len(ctx[c].popped) : ctx[c].popped[i].id = i
        /\ lastLine.id = responseQueueSize + 1
        /\ lastLine.sends = <<[queue |-> "response", ok |-> FALSE]>>

\* the criterion is a prefix followed by the wildcard marker as its last
\* character
MarkerLast(criterion) ==
    /\ criterion # << >>
    /\ criterion[Len(criterion)] = "*"
    /\ \A n \in 1..(Len(criterion) - 1) : criterion[n] # "*"

\* the criteria read as the two pattern forms only: a criterion with the
\* marker as its last character stands for its prefix, any other stands for
\* itself
MatchesPatterns(line, criteria) ==
    \E i \in 1..Len(criteria) :
        IF MarkerLast(criteria[i])
        THEN StartsWithSome(line, <<BeforeMarker(criteria[i])>>)
        ELSE line = criteria[i]

\* C32: with prompt mode off, a line ends the response exactly when it
\* starts with the prefix of a criterion whose last character is the marker
\* '*', or is equal to a criterion; a criterion with characters after the
\* marker is not read as a prefix with a wildcard.
C32_MarkerLastOnly ==
    \A c \in tasks :
        (Matched(c) /\ ~enablePrompt) =>
            ctx[c].result = MatchesPatterns(ctx[c].popped[1].str, responseEndCriteria)

\* the lists that hold the elements of list s in another order, s included
Reorderings(s) ==
    {[i \in 1..Len(s) |-> s[f[i]]] :
        f \in {g \in [1..Len(s) -> 1..Len(s)] :
                  \A i, j \in 1..Len(s) : g[i] = g[j] => i = j}}

\* C33: the queue processLine sends a line to is the one it would send it
\* to with the async prefixes in any other order, and the verdict of
\* isEndOfResponse on a line getResponses pops is the one it would give
\* with the end criteria in any other order.
C33_OrderIndependent ==
    [][/\ nextId' # nextId =>
             \A p \in Reorderings(asyncResponsePrefixes) :
                 /\ Len(Destinations(lastLine'.str, p)) = Len(lastLine'.sends)
                 /\ \A i \in 1..Len(lastLine'.sends) :
                       lastLine'.sends[i].queue = Destinations(lastLine'.str, p)[i]
       /\ \A c \in tasks :
             (/\ ctx[c].op = "getResponses"
              /\ ctx[c].pc = "waiting"
              /\ Len(ctx'[c].popped) = Len(ctx[c].popped) + 1) =>
                 \A p \in Reorderings(responseEndCriteria) :
                     (ctx'[c].pc = "done" /\ ctx'[c].result)
                     = EndOfResponse(Head(responseQueue).str, enablePrompt,
                                     promptCharacter, p)]_vars

\* with two different end criteria of which only the second holds of the
\* line, getResponses returned true on the one line it popped; with the
\* criteria in the other order it is the first that holds
C33_Witness ==
    \E c \in tasks :
        /\ Matched(c)
        /\ ctx[c].result = TRUE
        /\ ~enablePrompt
        /\ Len(responseEndCriteria) = 2
        /\ ~EndOfResponse(ctx[c].popped[1].str, FALSE, promptCharacter,
                          <<responseEndCriteria[1]>>)
        /\ EndOfResponse(ctx[c].popped[1].str, FALSE, promptCharacter,
                         <<responseEndCriteria[2]>>)

\* C34: a collector called with timeoutMs = 0 and a list returns at once:
\* the step that enters it leaves both queues as they are and ends the
\* call, sendATCommandWithResponse having written its command; the call
\* returns false, has popped nothing and its list is empty, whatever the
\* list held before and whatever is queued.
C34_ZeroTimeoutNoPop ==
    /\ [][\A c \in tasks :
            (/\ ctx[c].pc = "idle"
             /\ ctx'[c].op \in Collectors
             /\ ~ctx'[c].null
             /\ ctx'[c].timeoutMs = 0) =>
                /\ responseQueue' = responseQueue
                /\ asyncEventQueue' = asyncEventQueue
                /\ ctx'[c].pc = "done"
                /\ ctx'[c].op = "sendATCommandWithResponse" =>
                      \E command \in Commands : tx' = tx \o command \o <<CR, LF>>
                /\ ctx'[c].op = "getResponses" => tx' = tx]_vars
    /\ [](\A c \in Callers :
            (Collecting(c) /\ ctx[c].timeoutMs = 0) =>
                /\ ctx[c].pc = "done"
                /\ ctx[c].result = FALSE
                /\ ctx[c].popped = << >>
                /\ responses[c] = << >>)

\* sendATCommandWithResponse with timeoutMs = 0 has written its command and
\* returned false with an empty list while the response queue is full
C34_Witness ==
    \E c \in tasks :
        /\ ctx[c].op = "sendATCommandWithResponse"
        /\ ~ctx[c].null
        /\ ctx[c].timeoutMs = 0
        /\ ctx[c].pc = "done"
        /\ ctx[c].result = FALSE
        /\ responses[c] = << >>
        /\ tx # << >>
        /\ Len(responseQueue) = responseQueueSize

\* a reading of millis() on a clock that does not wrap: the run starts two
\* milliseconds before the wrap, so a reading below the first one was taken
\* after the wrap
Unwrapped(t) == IF t < MillisModulus - 2 THEN t + MillisModulus ELSE t

\* the time that has really passed since the reading t
TrueElapsed(t) == Unwrapped(now) - Unwrapped(t)

\* the step evaluates the loop guard of the collector caller c is in: the
\* call is entered, or a line was popped that does not end the response
GuardEvaluated(c) ==
    /\ ctx'[c].op \in Collectors
    /\ ~ctx'[c].null
    /\ \/ ctx[c].pc = "idle"
       \/ /\ Len(ctx'[c].popped) = Len(ctx[c].popped) + 1
          /\ ~isEndOfResponse(Head(responseQueue).str)

\* C35: the clock counts every millisecond and wraps; the elapsed time a
\* collector computes is the time that has really passed since it took
\* startTime, before and after the wrap; and each time the loop guard is
\* evaluated the call goes on waiting exactly when less than timeoutMs has
\* really passed.
C35_WrapSafeGuard ==
    /\ [](/\ Unwrapped(now) = MillisModulus - 2 + ticks
          /\ \A c \in Callers :
                Collecting(c) =>
                   /\ Elapsed(ctx[c].startTime) = TrueElapsed(ctx[c].startTime)
                   /\ ctx[c].pc = "waiting" =>
                         TrueElapsed(ctx[c].waitStart) <= TrueElapsed(ctx[c].startTime))
    /\ [][\A c \in tasks :
            GuardEvaluated(c) =>
                /\ now' = now
                /\ (ctx'[c].pc = "waiting")
                   = (TrueElapsed(ctx'[c].startTime) < ctx'[c].timeoutMs)
                /\ ctx'[c].pc # "waiting" => ctx'[c].pc = "done"]_vars

\* the clock wrapped during a call; the loop guard was evaluated after the
\* wrap, when less than timeoutMs had passed, and the call waits on
C35_Witness ==
    \E c \in tasks :
        /\ Collecting(c)
        /\ ctx[c].pc = "waiting"
        /\ ctx[c].popped # << >>
        /\ ctx[c].waitStart < ctx[c].startTime
        /\ now < ctx[c].startTime

\* C36: no byte is read before begin. The step of begin leaves prompt mode
\* off, whatever the flag held before and whether or not setEnablePrompt
\* was called earlier, and starts the reader. Once the reader runs, only a
\* call of setEnablePrompt turns prompt mode on, and while it is off a byte
\* other than CR and LF is appended to the buffer and completes no line.
C36_BeginDisablesPrompt ==
    /\ [](~started => (emitted = 0 /\ nextId = 1 /\ buffer = << >>))
    /\ [][/\ \A c \in tasks :
               begin(c) => (~started /\ started' /\ enablePrompt' = FALSE)
          /\ (~started /\ started') => enablePrompt' = FALSE
          /\ (started /\ ~enablePrompt /\ enablePrompt') =>
                \E c \in tasks, chr \in PromptChars : setEnablePrompt(c, chr)
          /\ \A b \in Byte :
                (~enablePrompt /\ b # CR /\ b # LF /\ readFromModemTask(b)) =>
                    /\ nextId' = nextId
                    /\ buffer' = Append(buffer, b)
                    /\ UNCHANGED <<responseQueue, asyncEventQueue>>]_vars

\* since begin the reader has read the character held in promptCharacter
\* twice; prompt mode is off, both are in the buffer and no line was
\* completed
C36_Witness ==
    /\ started
    /\ ~enablePrompt
    /\ emitted = 2
    /\ buffer = <<promptCharacter, promptCharacter>>
    /\ nextId = 1
    /\ lastLine = NoLine

====
